---- MODULE Spec2Model ----
(***************************************************************************)
(* A model of exa-cli's invocation framework: parseArgs, resolveInput,     *)
(* readStdin, the tool registry, runCli and the entry-point wrapper.       *)
(*                                                                         *)
(* Strings.  A JavaScript string is modelled as a finite sequence of       *)
(* symbols.  A symbol stands for a fixed non-empty run of characters       *)
(* ("--help", "crawling_exa", "@", " ", ...).  The alphabet is chosen so    *)
(* that no symbol is a concatenation of others, "@" is the only symbol     *)
(* that begins with the character '@', and the whitespace symbols are the  *)
(* only ones that begin or end with whitespace.  The empty string is <<>>, *)
(* concatenation is \o, startsWith("@") looks at the first symbol,         *)
(* slice(1) drops it, and trim() strips whitespace symbols at both ends.    *)
(*                                                                         *)
(* An optional value (string | undefined) is a record [def, val].          *)
(***************************************************************************)
EXTENDS Integers, Sequences, FiniteSets, TLC

\* ------------------------------------------------------------------ bounds

\* argv is a concatenation of at most MaxSegs segments (see Segments)
MaxSegs == 3
\* at most MaxEvents data/end/error events are emitted by an event-driven stdin
MaxEvents == 3

\* ----------------------------------------------------------------- strings

None == [def |-> FALSE, val |-> <<>>]
Some(s) == [def |-> TRUE, val |-> s]

\* mutant: emptiness tested on the trimmed text
Truthy_Trimmed(o) == o.def /\ SelectSeq(o.val, LAMBDA c : c \notin {" ", "\n"}) # <<>>

\* JavaScript truthiness of a (string | undefined): defined and non-empty
Truthy(o) == o.def /\ o.val # <<>>

Whitespace == {" ", "\n"}

RECURSIVE TrimStart(_)
TrimStart(s) ==
  IF s # <<>> /\ Head(s) \in Whitespace THEN TrimStart(Tail(s)) ELSE s

RECURSIVE TrimEnd(_)
TrimEnd(s) ==
  IF s # <<>> /\ s[Len(s)] \in Whitespace
    THEN TrimEnd(SubSeq(s, 1, Len(s) - 1))
    ELSE s

\* String.prototype.trim
Trim(s) == TrimEnd(TrimStart(s))

\* String.prototype.startsWith("@")
StartsWithAt(s) == s # <<>> /\ Head(s) = "@"

\* String.prototype.slice(1)
Slice1(s) == IF s = <<>> THEN <<>> ELSE Tail(s)

\* ------------------------------------------------------------ flag grammar

HELP == <<"--help">>
H == <<"-h">>
LIST_TOOLS == <<"--list-tools">>
PRETTY == <<"--pretty">>
API_KEY == <<"--api-key">>
INPUT == <<"--input">>
I == <<"-i">>
INPUT_FILE == <<"--input-file">>

\* const options: CliOptions = {}
EmptyOptions ==
  [help |-> FALSE, listTools |-> FALSE, pretty |-> FALSE,
   apiKey |-> None, input |-> None, inputFile |-> None]

\* args.shift() on the rest of the argument list: the next token or undefined
Shift(args) == IF args = <<>> THEN None ELSE Some(Head(args))

\* mutant: the value is read but left in the argument list
Shifted_Peek(args) == args

\* the argument list after args.shift()
Shifted(args) == IF args = <<>> THEN <<>> ELSE Tail(args)

\* mutant: each positional token replaces the identifier
positional_LastWins(toolId, arg) == Some(arg)

\* mutant: a token that begins with a dash is dropped
positional_DropsDashed(toolId, arg) ==
  IF Head(arg) \in {"--verbose", "--help"} \/ Truthy(toolId) THEN toolId ELSE Some(arg)

\* if (!toolId) { toolId = arg }
positional(toolId, arg) == IF ~Truthy(toolId) THEN Some(arg) ELSE toolId

\* the while loop of parseArgs: one iteration per recursive call
RECURSIVE parseLoop(_, _, _)
parseLoop(args, toolId, options) ==
  IF args = <<>> THEN [toolId |-> toolId, options |-> options]
  ELSE
    LET arg == Head(args)
        rest == Tail(args)
    IN
      IF arg = <<>> THEN parseLoop(rest, toolId, options)
      ELSE IF arg = HELP \/ arg = H
        THEN parseLoop(rest, toolId, [options EXCEPT !.help = TRUE])
      ELSE IF arg = LIST_TOOLS
        THEN parseLoop(rest, toolId, [options EXCEPT !.listTools = TRUE])
      ELSE IF arg = PRETTY
        THEN parseLoop(rest, toolId, [options EXCEPT !.pretty = TRUE])
      ELSE IF arg = API_KEY
        THEN parseLoop(Shifted(rest), toolId, [options EXCEPT !.apiKey = Shift(rest)])
      ELSE IF arg = INPUT \/ arg = I
        THEN parseLoop(Shifted(rest), toolId, [options EXCEPT !.input = Shift(rest)])
      ELSE IF arg = INPUT_FILE
        THEN parseLoop(Shifted(rest), toolId, [options EXCEPT !.inputFile = Shift(rest)])
      ELSE parseLoop(rest, positional(toolId, arg), options)

parseArgs(argv) == parseLoop(argv, None, EmptyOptions)

\* ----------------------------------------------------------- tool registry

TOOL_IDS ==
  << <<"web_search_exa">>, <<"deep_search_exa">>, <<"company_research_exa">>,
     <<"crawling_exa">>, <<"linkedin_search_exa">>, <<"deep_researcher_start">>,
     <<"deep_researcher_check">>, <<"get_code_context_exa">> >>

\* a zod raw shape: one entry per field, with the type it requires and
\* whether .optional() was applied
Field(key, type, optional) == [key |-> key, type |-> type, optional |-> optional]

crawlingSchema ==
  {Field("url", "string", FALSE), Field("maxCharacters", "number", TRUE)}

linkedInSearchSchema ==
  {Field("query", "string", FALSE), Field("searchType", "enum", TRUE),
   Field("numResults", "number", TRUE)}

\* ToolConfig: { exaApiKey?: string }
Config(apiKey) == [exaApiKey |-> apiKey]
EmptyConfig == Config(None)

\* a ToolDefinition; the handler closes over the config it was built with
Tool(id, description, schema, label, config) ==
  [id |-> id, description |-> description, schema |-> schema,
   label |-> label, config |-> config]

createCrawlingTool(config) ==
  Tool(<<"crawling_exa">>, <<"Extract and crawl content from specific URLs">>,
       crawlingSchema, <<"Crawling">>, config)

createLinkedInSearchTool(config) ==
  Tool(<<"linkedin_search_exa">>, <<"Search LinkedIn profiles and companies">>,
       linkedInSearchSchema, <<"LinkedIn search">>, config)

\* The six factories below are imported by registry.ts from modules whose
\* source is not at hand; their ids are those of TOOL_IDS, their fields those
\* of the argument types, their labels those the tests expect.
createWebSearchTool(config) ==
  Tool(<<"web_search_exa">>, <<"description of web_search_exa">>,
       {Field("query", "string", FALSE), Field("numResults", "number", TRUE),
        Field("livecrawl", "enum", TRUE), Field("type", "enum", TRUE),
        Field("contextMaxCharacters", "number", TRUE)},
       <<"Search">>, config)

createDeepSearchTool(config) ==
  Tool(<<"deep_search_exa">>, <<"description of deep_search_exa">>,
       {Field("objective", "string", FALSE), Field("search_queries", "array", TRUE)},
       <<"Deep search">>, config)

createCompanyResearchTool(config) ==
  Tool(<<"company_research_exa">>, <<"description of company_research_exa">>,
       {Field("companyName", "string", FALSE), Field("numResults", "number", TRUE)},
       <<"Company research">>, config)

createDeepResearchStartTool(config) ==
  Tool(<<"deep_researcher_start">>, <<"description of deep_researcher_start">>,
       {Field("instructions", "string", FALSE), Field("model", "enum", FALSE)},
       <<"Research start">>, config)

createDeepResearchCheckTool(config) ==
  Tool(<<"deep_researcher_check">>, <<"description of deep_researcher_check">>,
       {Field("taskId", "string", FALSE)}, <<"Research check">>, config)

createExaCodeTool(config) ==
  Tool(<<"get_code_context_exa">>, <<"description of get_code_context_exa">>,
       {Field("query", "string", FALSE), Field("tokensNum", "number", FALSE)},
       <<"Code search">>, config)

\* mutant: two factories listed in the other order
createToolRegistry_Swapped(config) ==
  << createWebSearchTool(config),
     createDeepSearchTool(config),
     createCompanyResearchTool(config),
     createLinkedInSearchTool(config),
     createCrawlingTool(config),
     createDeepResearchStartTool(config),
     createDeepResearchCheckTool(config),
     createExaCodeTool(config) >>

createToolRegistry(config) ==
  << createWebSearchTool(config),
     createDeepSearchTool(config),
     createCompanyResearchTool(config),
     createCrawlingTool(config),
     createLinkedInSearchTool(config),
     createDeepResearchStartTool(config),
     createDeepResearchCheckTool(config),
     createExaCodeTool(config) >>

NoTool == [def |-> FALSE, val |-> Tool(<<>>, <<>>, {}, <<>>, EmptyConfig)]

\* mutant: the id compared with startsWith instead of ===
getToolDefinition_StartsWith(toolId, config) ==
  LET tools == createToolRegistry(config)
      hits == {i \in 1..Len(tools) : toolId # <<>> /\ tools[i].id = <<Head(toolId)>>}
  IN IF hits = {} THEN NoTool
     ELSE [def |-> TRUE, val |-> tools[CHOOSE i \in hits : \A j \in hits : i <= j]]

\* mutant: an id that matches no tool falls back to the first tool
getToolDefinition_Fallback(toolId, config) ==
  LET tools == createToolRegistry(config)
      hits == {i \in 1..Len(tools) : tools[i].id = toolId}
  IN [def |-> TRUE,
      val |-> IF hits = {} THEN tools[1]
              ELSE tools[CHOOSE i \in hits : \A j \in hits : i <= j]]

\* tools.find(tool => tool.id === toolId): the first match, or undefined
getToolDefinition(toolId, config) ==
  LET tools == createToolRegistry(config)
      hits == {i \in 1..Len(tools) : tools[i].id = toolId}
  IN IF hits = {} THEN NoTool
     ELSE [def |-> TRUE, val |-> tools[CHOOSE i \in hits : \A j \in hits : i <= j]]

\* -------------------------------------------------------- JSON and schema

\* thrown values: an Error carries a message; any other thrown value is
\* modelled as a thrown string (String(v) = v)
Err(message) ==
  [kind |-> "Error", message |-> message, str |-> <<"Error: ">> \o message]
Thrown(value) ==
  [kind |-> "string", message |-> <<"undefined">>, str |-> value]

\* mutant: error.message taken without the instanceof test
errorMessage_AlwaysMessage(error) == error.message

\* error instanceof Error ? error.message : String(error)
errorMessage(error) ==
  IF error.kind = "Error" THEN error.message ELSE error.str

\* the JSON documents of the model: text symbol -> parsed value.  An object
\* is the set of its <<key, type of value>> members.
JObject(members) == [kind |-> "object", members |-> members]
JNumber == [kind |-> "number", members |-> {}]

JUrl == "{\"url\":\"u\"}"
JQuery == "{\"query\":\"q\"}"
JEmpty == "{}"
JOne == "1"
JBad == "{oops"

JsonDocs == {JUrl, JQuery, JEmpty, JOne}

JsonValue(sym) ==
  CASE sym = JUrl -> JObject({<<"url", "string">>})
    [] sym = JQuery -> JObject({<<"query", "string">>})
    [] sym = JEmpty -> JObject({})
    [] OTHER -> JNumber

\* JSON.parse: surrounding whitespace is allowed, anything that is not one
\* document is a SyntaxError
JsonParse(text) ==
  LET t == Trim(text) IN
    IF Len(t) = 1 /\ t[1] \in JsonDocs
      THEN [ok |-> TRUE, value |-> JsonValue(t[1]), error |-> Err(<<>>)]
      ELSE [ok |-> FALSE, value |-> JNumber, error |-> Err(<<"JSON Parse error">>)]

\* mutant: every field treated as .optional()
SchemaParse_AllOptional(schema, raw) ==
  LET fieldOk(f) ==
        \/ <<f.key, f.type>> \in raw.members
        \/ ~\E m \in raw.members : m[1] = f.key
      ok == raw.kind = "object" /\ \A f \in schema : fieldOk(f)
  IN [ok |-> ok,
      value |-> {m \in raw.members : \E f \in schema : f.key = m[1]},
      error |-> Err(<<"Invalid input">>)]

\* z.object(shape).parse(raw): raw must be an object whose required fields are
\* present with the required type and whose optional fields, when present,
\* have it; unknown keys are stripped from the result
SchemaParse(schema, raw) ==
  LET fieldOk(f) ==
        \/ <<f.key, f.type>> \in raw.members
        \/ f.optional /\ ~\E m \in raw.members : m[1] = f.key
      ok == raw.kind = "object" /\ \A f \in schema : fieldOk(f)
  IN [ok |-> ok,
      value |-> {m \in raw.members : \E f \in schema : f.key = m[1]},
      error |-> Err(<<"Invalid input">>)]

\* ------------------------------------------------------------ tool handlers

\* a ToolResult with one text block; isError is "true", "false" or "absent"
TextResult(text, isError) ==
  [content |-> <<[type |-> "text", text |-> text]>>, isError |-> isError]

\* the body of an HTTP response as getResponseMessage looks at it: its type
\* (typeof, with null apart), whether it has a message member, and that
\* member's type and text; text is the string itself of a body that is one
Body(type, hasMessage, messageType, message) ==
  [type |-> type, hasMessage |-> hasMessage,
   messageType |-> messageType, message |-> message, text |-> <<>>]
StringBody(text) ==
  [type |-> "string", hasMessage |-> FALSE,
   messageType |-> "undefined", message |-> <<>>, text |-> text]
NoBody == Body("undefined", FALSE, "undefined", <<>>)

\* JSON.stringify of a body: a string in quotes, null, an object by its
\* members (the objects of the model hold a message member or an error member)
JsonStringify(data) ==
  CASE data.type = "string" -> <<"\"">> \o data.text \o <<"\"">>
    [] data.type = "null" -> <<"null">>
    [] data.type = "object" /\ data.hasMessage /\ data.messageType = "string" ->
         <<"{\"message\":\"">> \o data.message \o <<"\"}">>
    [] data.type = "object" /\ data.hasMessage -> <<"{\"message\":123}">>
    [] OTHER -> <<"{\"error\":\"nope\"}">>

\* error.response: absent, or a status and a body
NoResponse == [def |-> FALSE, status |-> 0, data |-> NoBody]
Response(status, data) == [def |-> TRUE, status |-> status, data |-> data]

\* the values a handler can catch: a failure carrying the isAxiosError marker,
\* an Error, or any other thrown value
AxiosError(message, response) ==
  [kind |-> "AxiosError", message |-> message,
   str |-> <<"[object Object]">>, response |-> response]
Caught(e) ==
  [kind |-> e.kind, message |-> e.message, str |-> e.str, response |-> NoResponse]

getResponseMessage(data) ==
  IF data.type # "object" THEN None
  ELSE IF ~data.hasMessage THEN None
  ELSE IF data.messageType = "string" THEN Some(data.message) ELSE None

NoInfo ==
  [def |-> FALSE, statusCode |-> <<>>, message |-> <<>>, responseBody |-> None]

\* the responseBody of getAxiosErrorInfo
responseBodyOf(data) ==
  IF data.type = "undefined" THEN None
  ELSE IF data.type = "string" THEN Some(data.text)
  ELSE Some(JsonStringify(data))

\* mutant: a failure without a response reported with status 0
getAxiosErrorInfo_StatusZero(error) ==
  IF error.kind # "AxiosError" THEN NoInfo
  ELSE LET responseMessage == getResponseMessage(error.response.data)
       IN [def |-> TRUE,
           statusCode |-> <<ToString(error.response.status)>>,
           message |-> IF responseMessage.def THEN responseMessage.val
                                              ELSE error.message,
           responseBody |-> responseBodyOf(error.response.data)]

\* getAxiosErrorInfo: absent unless the value carries the axios marker; the
\* status of the response or "unknown"; the body's string message or the
\* failure's own message; the body as a string
getAxiosErrorInfo(error) ==
  IF error.kind # "AxiosError" THEN NoInfo
  ELSE LET responseMessage == getResponseMessage(error.response.data)
       IN [def |-> TRUE,
           statusCode |-> IF error.response.def
                            THEN <<ToString(error.response.status)>>
                            ELSE <<"unknown">>,
           message |-> IF responseMessage.def THEN responseMessage.val
                                              ELSE error.message,
           responseBody |-> responseBodyOf(error.response.data)]

\* mutant: the catch block without its axios branch
handlerCatch_NoStatus(label, error) ==
  [ok |-> TRUE,
   result |-> TextResult(label \o <<" error: ">> \o errorMessage(error), "true"),
   err |-> error]

\* mutant: the catch block rethrows what it caught
handlerCatch_Rethrow(label, error) ==
  [ok |-> FALSE, result |-> TextResult(<<>>, "true"), err |-> error]

\* the catch block of a handler: the three-way text
handlerCatch(label, error) ==
  LET axiosInfo == getAxiosErrorInfo(error)
      text == IF axiosInfo.def
                THEN label \o <<" error (">> \o axiosInfo.statusCode \o <<"): ">>
                       \o axiosInfo.message
                ELSE label \o <<" error: ">> \o errorMessage(error)
  IN [ok |-> TRUE, result |-> TextResult(text, "true"), err |-> error]

\* what awaiting the HTTP request gives: a response whose data holds results,
\* a response without them, or a thrown value
Fulfilled(data) == [ok |-> TRUE, data |-> data, error |-> Caught(Err(<<>>))]
Failed(error) == [ok |-> FALSE, data |-> "none", error |-> error]

\* a handler: the request is awaited inside try; a response without results
\* gives the tool's fixed text, one with results its rendering, a failure
\* the catch block
runHandler(label, emptyResult, remote) ==
  IF remote.ok
    THEN IF remote.data = "empty"
           THEN [ok |-> TRUE, result |-> emptyResult, err |-> remote.error]
           ELSE [ok |-> TRUE,
                 result |-> TextResult(<<"JSON.stringify(response.data)">>, "absent"),
                 err |-> remote.error]
    ELSE handlerCatch(label, remote.error)

crawlingHandler(remote) ==
  runHandler(<<"Crawling">>,
             TextResult(<<"No content found for the provided URL.">>, "absent"),
             remote)

linkedInSearchHandler(remote) ==
  runHandler(<<"LinkedIn search">>,
             TextResult(<<"No LinkedIn content found. Please try a different query.">>,
                        "absent"),
             remote)

\* The handlers below belong to modules whose source is not at hand; their
\* labels and texts are those their tests expect.
webSearchHandler(remote) ==
  runHandler(<<"Search">>, TextResult(<<"No search results">>, "absent"), remote)

deepSearchHandler(remote) ==
  runHandler(<<"Deep search">>, TextResult(<<"No search results">>, "absent"), remote)

companyResearchHandler(remote) ==
  runHandler(<<"Company research">>,
             TextResult(<<"No company information">>, "absent"), remote)

deepResearchStartHandler(remote) ==
  runHandler(<<"Research start">>, TextResult(<<"Failed to start">>, "true"), remote)

exaCodeHandler(remote) ==
  runHandler(<<"Code search">>, TextResult(<<"No code snippets">>, "absent"), remote)

\* deep_researcher_check answers a 404 of the remote side with its own text
deepResearchCheckHandler(remote) ==
  IF ~remote.ok /\ remote.error.kind = "AxiosError"
     /\ remote.error.response.def /\ remote.error.response.status = 404
    THEN [ok |-> TRUE, result |-> TextResult(<<"Task not found">>, "true"),
          err |-> remote.error]
    ELSE runHandler(<<"Research check">>,
                    TextResult(<<"Failed to check research task status">>, "true"),
                    remote)

\* tool.handler(args) for a definition of the registry
handler(tool, remote) ==
  CASE tool.id = <<"web_search_exa">> -> webSearchHandler(remote)
    [] tool.id = <<"deep_search_exa">> -> deepSearchHandler(remote)
    [] tool.id = <<"company_research_exa">> -> companyResearchHandler(remote)
    [] tool.id = <<"crawling_exa">> -> crawlingHandler(remote)
    [] tool.id = <<"linkedin_search_exa">> -> linkedInSearchHandler(remote)
    [] tool.id = <<"deep_researcher_start">> -> deepResearchStartHandler(remote)
    [] tool.id = <<"deep_researcher_check">> -> deepResearchCheckHandler(remote)
    [] OTHER -> exaCodeHandler(remote)

\* mutant: the environment variable consulted before the config
apiKeyHeader_EnvFirst(config, envKey) ==
  IF Truthy(envKey) THEN envKey.val
  ELSE IF Truthy(config.exaApiKey) THEN config.exaApiKey.val
  ELSE <<>>

\* 'x-api-key': config?.exaApiKey || Bun.env.EXA_API_KEY || ''
apiKeyHeader(config, envKey) ==
  IF Truthy(config.exaApiKey) THEN config.exaApiKey.val
  ELSE IF Truthy(envKey) THEN envKey.val
  ELSE <<>>

\* ------------------------------------------------------------------ output

usage == <<"Usage:">>

\* formatError: the error-shaped ToolResult
formatError(message) ==
  [content |-> <<[type |-> "text", text |-> message]>>, isError |-> "true"]

\* what stdout.write / stderr.write receive
RawChunk(text) == [format |-> "raw", body |-> text, trailer |-> <<>>]

\* mutant: the document and its newline written by two write calls
printJson_TwoWrites(payload, pretty, sink) ==
  Append(Append(sink, [format |-> IF pretty THEN "pretty" ELSE "compact",
                       body |-> payload, trailer |-> <<>>]),
         RawChunk(<<"\n">>))

\* printJson: JSON.stringify (indented when pretty is truthy) plus "\n"
printJson(payload, pretty, sink) ==
  Append(sink, [format |-> IF pretty THEN "pretty" ELSE "compact",
                body |-> payload, trailer |-> <<"\n">>])

\* -------------------------------------------------------- input resolution

\* io.stdin as far as the code looks at it: isTTY (a boolean or absent), size
\* (absent, a finite number, or Infinity/NaN) and, for each of text, stream
\* and on, whether it is a function
StdinShapes ==
  [isTTY : {"absent", "true", "false"},
   size : {"absent", "finite", "nonfinite"},
   text : {"function", "absent"},
   stream : {"function", "absent"},
   on : {"function", "absent"}]

\* the stdin of an invocation that never looks at it
Unobserved ==
  [isTTY |-> "unread", size |-> "unread",
   text |-> "unread", stream |-> "unread", on |-> "unread"]

\* mutant: Number.isFinite(size) taken without the negation
stdinIsTTY_FiniteIsTerminal(io) ==
  IF io.isTTY # "absent" THEN io.isTTY = "true"
  ELSE IF io.size # "absent" THEN io.size = "finite"
  ELSE FALSE

stdinIsTTY(io) ==
  IF io.isTTY # "absent" THEN io.isTTY = "true"
  ELSE IF io.size # "absent" THEN io.size # "finite"
  ELSE FALSE

\* readStdin: the capability that is drained, probed in this order
readStdin(io) ==
  IF io.text = "function" THEN "text"
  ELSE IF io.stream = "function" THEN "stream"
  ELSE IF io.on = "function" THEN "on"
  ELSE "none"

\* io.stdin with the properties the invocation did not read left out: size is
\* read only when isTTY is no boolean, text/stream/on only when stdin is no
\* terminal, and each of them only when the one probed before is no function
Observed(io) ==
  LET tty == stdinIsTTY(io)
      via == readStdin(io)
  IN [isTTY |-> io.isTTY,
      size |-> IF io.isTTY = "absent" THEN io.size ELSE "unread",
      text |-> IF tty THEN "unread" ELSE io.text,
      stream |-> IF tty \/ via = "text" THEN "unread" ELSE io.stream,
      on |-> IF tty \/ via \in {"text", "stream"} THEN "unread" ELSE io.on]

\* mutant: the trimmed text is returned
stdinResult_Trimmed(stdinData) ==
  IF Len(Trim(stdinData)) # 0 THEN Some(Trim(stdinData)) ELSE None

\* mutant: emptiness tested without trimming
stdinResult_Untrimmed(stdinData) ==
  IF Len(stdinData) # 0 THEN Some(stdinData) ELSE None

\* stdinData.trim().length ? stdinData : undefined
stdinResult(stdinData) ==
  IF Len(Trim(stdinData)) # 0 THEN Some(stdinData) ELSE None

Source(src, path, value, via) ==
  [src |-> src, path |-> path, value |-> value, via |-> via]

\* mutant: the literal tested before the input file
resolveInput_LiteralFirst(options, io) ==
  IF options.input.def /\ StartsWithAt(options.input.val)
    THEN Source("atFile", Slice1(options.input.val), <<>>, "none")
  ELSE IF Truthy(options.input)
    THEN Source("literal", <<>>, options.input.val, "none")
  ELSE IF Truthy(options.inputFile)
    THEN Source("inputFile", options.inputFile.val, <<>>, "none")
  ELSE IF ~stdinIsTTY(io)
    THEN Source("stdin", <<>>, <<>>, readStdin(io))
  ELSE Source("tty", <<>>, <<>>, "none")

\* resolveInput up to its first await: which source is selected
resolveInput(options, io) ==
  IF Truthy(options.inputFile)
    THEN Source("inputFile", options.inputFile.val, <<>>, "none")
  ELSE IF options.input.def /\ StartsWithAt(options.input.val)
    THEN Source("atFile", Slice1(options.input.val), <<>>, "none")
  ELSE IF Truthy(options.input)
    THEN Source("literal", <<>>, options.input.val, "none")
  ELSE IF ~stdinIsTTY(io)
    THEN Source("stdin", <<>>, <<>>, readStdin(io))
  ELSE Source("tty", <<>>, <<>>, "none")

\* mutant: data += chunk, an undefined chunk printed as "undefined"
onData_NoCoalesce(data, chunk) ==
  data \o (IF chunk.def THEN chunk.val ELSE <<"undefined">>)

\* mutant: the chunk put in front of what was read so far
onData_Prepend(data, chunk) ==
  (IF chunk.def THEN chunk.val ELSE <<>>) \o data

\* the "data" listener of readStdin: data += chunk ?? ""
onData(data, chunk) == data \o (IF chunk.def THEN chunk.val ELSE <<>>)

\* the promise returned by resolveInput
Pending(src) == [state |-> "pending", src |-> src, val |-> None, err |-> Err(<<>>)]
Resolved(src, val) == [state |-> "resolved", src |-> src, val |-> val, err |-> Err(<<>>)]
Rejected(src, err) == [state |-> "rejected", src |-> src, val |-> None, err |-> err]
NoPromise == [state |-> "none", src |-> "none", val |-> None, err |-> Err(<<>>)]

\* mutant: a later resolve or reject replaces the settlement
settleOnce_LastWins(promise, settlement) == settlement

\* resolve / reject of the promise readStdin creates: the first call settles
\* it, every later call is without effect
settleOnce(promise, settlement) ==
  IF promise.state = "pending" THEN settlement ELSE promise

\* ------------------------------------------------------------- environment

CRAWLING == <<"crawling_exa">>
NOPE == <<"nope">>

\* argv is a concatenation of segments: a lone token, or a value-taking flag
\* followed by a value
Segments ==
  { <<HELP>>, <<H>>, <<LIST_TOOLS>>, <<PRETTY>>, <<CRAWLING>>, <<NOPE>>,
    <<INPUT, <<JUrl>> >>, <<INPUT, <<"@", "f">> >>, <<INPUT, <<" ">> >>,
    <<INPUT_FILE, <<"g">> >>, <<INPUT_FILE, <<>> >>,
    <<API_KEY, <<"k">> >> }

RECURSIVE Concat(_)
Concat(segs) == IF segs = <<>> THEN <<>> ELSE Head(segs) \o Concat(Tail(segs))

ArgvSet ==
  { Concat(segs) : segs \in UNION { [1..n -> Segments] : n \in 0..MaxSegs } }

Texts == { <<>>, <<" ">>, <<JUrl>>, <<JBad>>, <<" ", JEmpty, "\n">> }

Failures == { Err(<<"ENOENT">>), Thrown(<<"boom">>) }

\* what awaiting Bun.file(path).text(), stdin.text() or the stream read gives
ReadOutcomes ==
  { [ok |-> TRUE, text |-> t, err |-> Err(<<>>)] : t \in Texts } \cup
  { [ok |-> FALSE, text |-> <<>>, err |-> e] : e \in Failures }

\* the chunk a "data" event carries: a string or undefined
Chunks == { None, Some(<<JUrl>>), Some(<<" ">>) }

\* what awaiting tool.handler(args) gives: a ToolResult or a thrown value
ToolResults ==
  { [content |-> <<[type |-> "text", text |-> <<"ok">>]>>, isError |-> e] :
      e \in {"absent", "true", "false"} }

HandlerOutcomes ==
  { [ok |-> TRUE, result |-> r, err |-> Err(<<>>)] : r \in ToolResults } \cup
  { [ok |-> FALSE, result |-> formatError(<<>>), err |-> e] : e \in Failures }

\* ------------------------------------------------------------------- state

VARIABLES
  argv,          \* the argument list of the invocation
  pc,            \* position of the invocation
  stdin,         \* io.stdin as read by resolveInput / readStdin
  tool,          \* the definition getToolDefinition returned
  input,         \* the promise of resolveInput
  content,       \* the text the selected source provided
  data,          \* readStdin's accumulator for "data" chunks
  listening,     \* whether the data/end/error listeners are registered
  events,        \* number of events stdin has emitted
  stdout,        \* chunks written to io.stdout
  stderr,        \* chunks written to io.stderr / Bun.stderr
  ret,           \* how runCli settled
  registries,    \* configs createToolRegistry was called with
  fileReads,     \* paths handed to Bun.file(...).text()
  stdinReads,    \* number of readStdin calls
  handlerCalls,  \* [tool id, config, args] of every handler invocation
  outcome,       \* how the handler invocation settled
  exit           \* what setExitCode did

vars ==
  <<argv, pc, stdin, tool, input, content, data, listening, events,
    stdout, stderr, ret, registries, fileReads, stdinReads, handlerCalls,
    outcome, exit>>

\* The state beyond the one invocation: a caller of the registry module and of
\* the handlers it hands out, and the process environment.
VARIABLES
  env,           \* Bun.env.EXA_API_KEY
  query,         \* the id and config the caller asks the registry with
  answer,        \* what the registry returned to it
  reply          \* the ToolResult last produced for it

toolvars == <<env, query, answer, reply>>

\* A process in which runCli is called several times, the calls overlapping
\* at their awaits.
VARIABLES
  inv,           \* the invocation in each slot (its io, position and results)
  runs,          \* number of runCli calls made so far
  lastConfig,    \* the config of the latest createToolRegistry call
  listed         \* what each completed --list-tools invocation wrote and returned

procvars == <<inv, runs, lastConfig, listed>>

elsewhere == <<toolvars, procvars>>

Return(code) == [kind |-> "code", code |-> code, err |-> Err(<<>>)]
Reject(err) == [kind |-> "error", code |-> -1, err |-> err]
NotSettled == [kind |-> "none", code |-> -1, err |-> Err(<<>>)]

NoExit == [via |-> "none", code |-> -1]

Parsed == parseArgs(argv)

NoOutcome == [kind |-> "none", result |-> formatError(<<>>), err |-> Err(<<>>)]

\* Bun.env.EXA_API_KEY: unset, empty or set
Envs == { None, Some(<<>>), Some(<<"e">>) }

NoQuery == [id |-> <<>>, config |-> EmptyConfig]
NoAnswer == [op |-> "none", tools |-> <<>>, found |-> NoTool]
NoReply ==
  [by |-> "none", id |-> <<>>, apiKey |-> <<>>, remote |-> Fulfilled("none"),
   info |-> NoInfo,
   settled |-> [ok |-> TRUE, result |-> TextResult(<<>>, "absent"),
                err |-> Caught(Err(<<>>))]]

\* no caller of the registry module is at work
ToolIdle ==
  /\ env = None
  /\ query = NoQuery
  /\ answer = NoAnswer
  /\ reply = NoReply

Slots == {1, 2}

NoCall ==
  [made |-> FALSE, id |-> <<>>, config |-> EmptyConfig, args |-> {},
   apiKey |-> <<>>]

\* a slot in which runCli has not been called
IdleSlot ==
  [argv |-> <<>>, pc |-> "idle", stdin |-> Unobserved, tool |-> NoTool,
   input |-> NoPromise, data |-> <<>>, listening |-> FALSE, events |-> 0,
   stdout |-> <<>>, stderr |-> <<>>, ret |-> NotSettled, built |-> <<>>,
   call |-> NoCall, remote |-> Fulfilled("none")]

ProcIdle ==
  /\ inv = [i \in Slots |-> IdleSlot]
  /\ runs = 0
  /\ lastConfig = [def |-> FALSE, val |-> EmptyConfig]
  /\ listed = {}

\* runCli has not been called
Unstarted ==
  /\ pc = "init"
  /\ stdin = Unobserved
  /\ tool = NoTool
  /\ input = NoPromise
  /\ content = None
  /\ data = <<>>
  /\ listening = FALSE
  /\ events = 0
  /\ stdout = <<>>
  /\ stderr = <<>>
  /\ ret = NotSettled
  /\ registries = <<>>
  /\ fileReads = <<>>
  /\ stdinReads = 0
  /\ handlerCalls = <<>>
  /\ outcome = NoOutcome
  /\ exit = NoExit

Init ==
  /\ argv \in ArgvSet
  /\ Unstarted
  /\ ToolIdle
  /\ ProcIdle

\* ------------------------------------------------------------------ runCli

\* mutant: the failure flag of the result is ignored
exitCodeOf_Ignored(result) == 0

\* return result.isError ? 1 : 0
exitCodeOf(result) == IF result.isError = "true" THEN 1 ELSE 0

\* tools.map(tool => ({ id: tool.id, description: tool.description }))
summaryOf(tools) ==
  [i \in 1..Len(tools) |-> [id |-> tools[i].id, description |-> tools[i].description]]

\* mutant: list-tools tested before help
dispatch_ListFirst(toolId, options, found) ==
  IF options.listTools THEN "listTools"
  ELSE IF options.help THEN "help"
  ELSE IF ~Truthy(toolId) THEN "missingTool"
  ELSE IF ~found.def THEN "unknownTool"
  ELSE "resolve"

\* mutant: the result of the lookup is not tested before the input is resolved
dispatch_ReadsFirst(toolId, options, found) ==
  IF options.help THEN "help"
  ELSE IF options.listTools THEN "listTools"
  ELSE IF ~Truthy(toolId) THEN "missingTool"
  ELSE "resolve"

\* the if-chain of runCli before input resolution: which branch is taken
dispatch(toolId, options, found) ==
  IF options.help THEN "help"
  ELSE IF options.listTools THEN "listTools"
  ELSE IF ~Truthy(toolId) THEN "missingTool"
  ELSE IF ~found.def THEN "unknownTool"
  ELSE "resolve"

\* mutant: the caught value always converted with String(error)
catchClause_StringOnly(error, pretty, sink) ==
  printJson(formatError(<<"CLI error: ">> \o error.str), pretty, sink)

\* the catch clause of runCli
catchClause(error, pretty, sink) ==
  printJson(formatError(<<"CLI error: ">> \o errorMessage(error)), pretty, sink)

Outcome(r, out) == [ret |-> r, stdout |-> out]

\* mutant: the await of resolveInput moved inside the try block
inputRejected_Caught(error, pretty, sink) ==
  Outcome(Return(1), catchClause(error, pretty, sink))

\* mutant: the handler awaited outside the try block
handlerRejected_Escapes(error, pretty, sink) == Outcome(Reject(error), sink)

\* mutant: a handler failure is swallowed and runCli never settles
handlerRejected_Hangs(error, pretty, sink) == Outcome(NotSettled, sink)

\* `await resolveInput(...)` stands before the try block: a rejection of the
\* promise leaves runCli as a rejection
inputRejected(error, pretty, sink) == Outcome(Reject(error), sink)

\* `await tool.handler(args)` stands inside the try block
handlerRejected(error, pretty, sink) ==
  Outcome(Return(1), catchClause(error, pretty, sink))

\* runCli from its call to its first await (or to its return when it returns
\* before awaiting)
RunCliStart ==
  /\ pc = "init"
  /\ \E io \in StdinShapes :
       LET toolId == Parsed.toolId
           options == Parsed.options
           config == Config(options.apiKey)
           found == getToolDefinition(toolId.val, config)
           branch == dispatch(toolId, options, found)
           source == resolveInput(options, io)
       IN
         CASE branch = "help" ->
           /\ stdout' = Append(stdout, RawChunk(usage))
           /\ ret' = Return(0)
           /\ pc' = "returned"
           /\ UNCHANGED <<stdin, tool, input, content, listening, stderr,
                          registries, fileReads, stdinReads>>
         [] branch = "listTools" ->
           /\ registries' = Append(registries, EmptyConfig)
           /\ stdout' = printJson(summaryOf(createToolRegistry(EmptyConfig)), TRUE, stdout)
           /\ ret' = Return(0)
           /\ pc' = "returned"
           /\ UNCHANGED <<stdin, tool, input, content, listening, stderr,
                          fileReads, stdinReads>>
         [] branch = "missingTool" ->
           /\ stderr' = Append(stderr, RawChunk(<<"Missing tool_id.", "\n">>))
           /\ stdout' = Append(stdout, RawChunk(usage))
           /\ ret' = Return(1)
           /\ pc' = "returned"
           /\ UNCHANGED <<stdin, tool, input, content, listening,
                          registries, fileReads, stdinReads>>
         [] branch = "unknownTool" ->
           /\ registries' = Append(registries, config)
           /\ stdout' = printJson(formatError(<<"Unknown tool: ">> \o toolId.val),
                                  options.pretty, stdout)
           /\ ret' = Return(1)
           /\ pc' = "returned"
           /\ UNCHANGED <<stdin, tool, input, content, listening, stderr,
                          fileReads, stdinReads>>
         [] OTHER ->
           /\ registries' = Append(registries, config)
           /\ tool' = found
           /\ pc' = "await_input"
           /\ UNCHANGED <<stdout, stderr, ret>>
           /\ CASE source.src \in {"inputFile", "atFile"} ->
                     /\ fileReads' = Append(fileReads, source.path)
                     /\ input' = Pending(source.src)
                     /\ UNCHANGED <<stdin, content, listening, stdinReads>>
                [] source.src = "literal" ->
                     /\ input' = Resolved("literal", Some(source.value))
                     /\ content' = Some(source.value)
                     /\ UNCHANGED <<stdin, listening, fileReads, stdinReads>>
                [] source.src = "stdin" ->
                     /\ stdin' = Observed(io)
                     /\ stdinReads' = stdinReads + 1
                     /\ listening' = (source.via = "on")
                     /\ input' = IF source.via = "none"
                                   THEN Resolved("stdin", stdinResult(<<>>))
                                   ELSE Pending("stdin")
                     /\ content' = IF source.via = "none" THEN Some(<<>>) ELSE content
                     /\ UNCHANGED fileReads
                [] OTHER ->
                     /\ stdin' = Observed(io)
                     /\ input' = Resolved("tty", None)
                     /\ UNCHANGED <<content, listening, fileReads, stdinReads>>
  /\ UNCHANGED <<argv, data, events, handlerCalls, outcome, exit>>
  /\ UNCHANGED elsewhere

\* Bun.file(path).text() settles
FileSettle ==
  /\ pc = "await_input"
  /\ input.state = "pending"
  /\ input.src \in {"inputFile", "atFile"}
  /\ \E o \in ReadOutcomes :
       /\ input' = IF o.ok THEN Resolved(input.src, Some(o.text))
                           ELSE Rejected(input.src, o.err)
       /\ content' = IF o.ok THEN Some(o.text) ELSE content
  /\ UNCHANGED <<argv, pc, stdin, tool, data, listening, events, stdout, stderr,
                 ret, registries, fileReads, stdinReads, handlerCalls, outcome, exit>>
  /\ UNCHANGED elsewhere

\* stdin.text() or new Response(stdin.stream()).text() settles
StdinTextSettle ==
  /\ pc = "await_input"
  /\ input.state = "pending"
  /\ input.src = "stdin"
  /\ readStdin(stdin) \in {"text", "stream"}
  /\ \E o \in ReadOutcomes :
       /\ input' = IF o.ok THEN Resolved("stdin", stdinResult(o.text))
                           ELSE Rejected("stdin", o.err)
       /\ content' = IF o.ok THEN Some(o.text) ELSE content
  /\ UNCHANGED <<argv, pc, stdin, tool, data, listening, events, stdout, stderr,
                 ret, registries, fileReads, stdinReads, handlerCalls, outcome, exit>>
  /\ UNCHANGED elsewhere

\* stdin emits "data": data += chunk ?? ""
StdinData ==
  /\ listening
  /\ events < MaxEvents
  /\ \E chunk \in Chunks :
       data' = onData(data, chunk)
  /\ events' = events + 1
  /\ UNCHANGED <<argv, pc, stdin, tool, input, content, listening, stdout, stderr,
                 ret, registries, fileReads, stdinReads, handlerCalls, outcome, exit>>
  /\ UNCHANGED elsewhere

\* stdin emits "end": resolve(data), which settles the promise only if it is
\* still pending
StdinEnd ==
  /\ listening
  /\ events < MaxEvents
  /\ events' = events + 1
  /\ input' = settleOnce(input, Resolved("stdin", stdinResult(data)))
  /\ content' = IF input.state = "pending" THEN Some(data) ELSE content
  /\ UNCHANGED <<argv, pc, stdin, tool, data, listening, stdout, stderr,
                 ret, registries, fileReads, stdinReads, handlerCalls, outcome, exit>>
  /\ UNCHANGED elsewhere

\* stdin emits "error": reject(error), likewise
StdinError ==
  /\ listening
  /\ events < MaxEvents
  /\ events' = events + 1
  /\ \E e \in Failures :
       input' = settleOnce(input, Rejected("stdin", e))
  /\ UNCHANGED <<argv, pc, stdin, tool, content, data, listening, stdout, stderr,
                 ret, registries, fileReads, stdinReads, handlerCalls, outcome, exit>>
  /\ UNCHANGED elsewhere

\* runCli resumes after `await resolveInput(...)`, up to `await tool.handler`
ResumeAfterInput ==
  /\ pc = "await_input"
  /\ input.state \in {"resolved", "rejected"}
  /\ LET options == Parsed.options
         parsed == JsonParse(input.val.val)
         args == SchemaParse(tool.val.schema, parsed.value)
         rejected == inputRejected(input.err, options.pretty, stdout)
     IN
       IF input.state = "rejected" THEN
         /\ ret' = rejected.ret
         /\ stdout' = rejected.stdout
         /\ pc' = IF rejected.ret.kind = "error" THEN "rejected" ELSE "returned"
         /\ UNCHANGED handlerCalls
       ELSE IF ~Truthy(input.val) THEN
         /\ stdout' = printJson(formatError(<<"Missing --input JSON or stdin input.">>),
                                options.pretty, stdout)
         /\ ret' = Return(1)
         /\ pc' = "returned"
         /\ UNCHANGED handlerCalls
       ELSE IF ~parsed.ok THEN
         /\ stdout' = catchClause(parsed.error, options.pretty, stdout)
         /\ ret' = Return(1)
         /\ pc' = "returned"
         /\ UNCHANGED handlerCalls
       ELSE IF ~args.ok THEN
         /\ stdout' = catchClause(args.error, options.pretty, stdout)
         /\ ret' = Return(1)
         /\ pc' = "returned"
         /\ UNCHANGED handlerCalls
       ELSE
         /\ handlerCalls' = Append(handlerCalls,
              [id |-> tool.val.id, config |-> tool.val.config, args |-> args.value])
         /\ pc' = "await_handler"
         /\ UNCHANGED <<stdout, ret>>
  /\ UNCHANGED <<argv, stdin, tool, input, content, data, listening, events,
                 stderr, registries, fileReads, stdinReads, outcome, exit>>
  /\ UNCHANGED elsewhere

\* tool.handler(args) settles and runCli runs to its return
ResumeAfterHandler ==
  /\ pc = "await_handler"
  /\ \E o \in HandlerOutcomes :
       LET pretty == Parsed.options.pretty
           thrown == handlerRejected(o.err, pretty, stdout)
       IN
         IF o.ok THEN
           /\ outcome' = [kind |-> "result", result |-> o.result, err |-> o.err]
           /\ stdout' = printJson(o.result, pretty, stdout)
           /\ ret' = Return(exitCodeOf(o.result))
           /\ pc' = "returned"
         ELSE
           /\ outcome' = [kind |-> "thrown", result |-> o.result, err |-> o.err]
           /\ stdout' = thrown.stdout
           /\ ret' = thrown.ret
           /\ pc' = IF thrown.ret.kind = "error" THEN "rejected" ELSE "returned"
  /\ UNCHANGED <<argv, stdin, tool, input, content, data, listening, events,
                 stderr, registries, fileReads, stdinReads, handlerCalls, exit>>
  /\ UNCHANGED elsewhere

\* ------------------------------------------------------------- entry point

\* When the module is the entry point, runCli's promise is chained into
\* then/catch; an invocation made by a caller of runCli simply takes none of
\* the two steps below.

\* mutant: the code is dropped
setExitCode_Dropped(code, disabled) == NoExit

\* setExitCode: records the code when __EXA_CLI_DISABLE_EXIT__ is set, else
\* calls Bun.exit
setExitCode(code, disabled) ==
  IF disabled THEN [via |-> "last", code |-> code] ELSE [via |-> "bun", code |-> code]

\* runCli().then(code => { if (code !== 0) setExitCode(code) })
EntryThen ==
  /\ pc = "returned"
  /\ \E disabled \in BOOLEAN :
       exit' = IF ret.code # 0 THEN setExitCode(ret.code, disabled) ELSE exit
  /\ pc' = "exited"
  /\ UNCHANGED <<argv, stdin, tool, input, content, data, listening, events, stdout,
                 stderr, ret, registries, fileReads, stdinReads, handlerCalls, outcome>>
  /\ UNCHANGED elsewhere

\* .catch(error => { Bun.write(Bun.stderr, `CLI error: ${message}\n`); setExitCode(1) })
EntryCatch ==
  /\ pc = "rejected"
  /\ stderr' = Append(stderr,
                 RawChunk(<<"CLI error: ">> \o errorMessage(ret.err) \o <<"\n">>))
  /\ \E disabled \in BOOLEAN : exit' = setExitCode(1, disabled)
  /\ pc' = "exited"
  /\ UNCHANGED <<argv, stdin, tool, input, content, data, listening, events, stdout,
                 ret, registries, fileReads, stdinReads, handlerCalls, outcome>>
  /\ UNCHANGED elsewhere

Next ==
  \/ RunCliStart
  \/ FileSettle
  \/ StdinTextSettle
  \/ StdinData
  \/ StdinEnd
  \/ StdinError
  \/ ResumeAfterInput
  \/ ResumeAfterHandler
  \/ EntryThen
  \/ EntryCatch

Spec == Init /\ [][Next]_vars

\* The invocation when every collaborator it awaits settles: the file read,
\* stdin.text() or the stream read, and the handler; and the continuation of
\* a settled promise is run.  Nothing makes stdin emit "end" or "error".
LiveSpec ==
  /\ Spec
  /\ WF_vars(RunCliStart)
  /\ WF_vars(FileSettle)
  /\ WF_vars(StdinTextSettle)
  /\ WF_vars(ResumeAfterInput)
  /\ WF_vars(ResumeAfterHandler)

\* ------------------------------------------- a caller of the registry module

K1 == <<"k">>
K2 == <<"k2">>

\* the config argument: none given (or one without a key), an empty key, keys
Configs == { Config(None), Config(Some(<<>>)), Config(Some(K1)), Config(Some(K2)) }

\* the ids asked for: the eight tool ids, the empty string, and strings that
\* are close to a tool id (a part of one, one in another case, one with more
\* characters after it)
LookupIds ==
  { TOOL_IDS[i] : i \in 1..Len(TOOL_IDS) } \cup
  { <<>>, <<"crawling">>, <<"CRAWLING_EXA">>, <<"crawling_exa", " ">>, NOPE }

Queries == [id : LookupIds, config : Configs]

MessageBody(message) == Body("object", TRUE, "string", message)

\* what awaiting the HTTP request of a handler can give
RemoteOutcomes ==
  { Fulfilled("results"), Fulfilled("empty"),
    Failed(AxiosError(<<"fallback">>, Response(500, MessageBody(<<"bad">>)))),
    Failed(AxiosError(<<"Not found">>, Response(404, MessageBody(<<"Not found">>)))),
    Failed(AxiosError(<<"fallback">>, Response(503, StringBody(<<"bad request">>)))),
    Failed(AxiosError(<<"fallback">>, Response(400, Body("object", FALSE, "undefined", <<>>)))),
    Failed(AxiosError(<<"fallback">>, Response(502, Body("null", FALSE, "undefined", <<>>)))),
    Failed(AxiosError(<<"fallback">>, Response(500, NoBody))),
    Failed(AxiosError(<<"fallback">>,
                      Response(418, Body("object", TRUE, "number", <<>>)))),
    Failed(AxiosError(<<"fallback">>, NoResponse)),
    Failed(Caught(Err(<<"boom">>))),
    Failed(Caught(Thrown(<<"boom">>))) }

\* the messages the dispatcher hands to formatError
Messages ==
  { <<"Unknown tool: ">> \o NOPE, <<"Missing --input JSON or stdin input.">>,
    <<"CLI error: ", "boom">>, <<"CLI error: ">> }

ToolInit ==
  /\ argv = <<>>
  /\ Unstarted
  /\ env \in Envs
  /\ query \in Queries
  /\ answer = NoAnswer
  /\ reply = NoReply
  /\ ProcIdle

\* createToolRegistry(config)
CallCreateToolRegistry ==
  /\ answer' = [op |-> "create", tools |-> createToolRegistry(query.config),
                found |-> NoTool]
  /\ UNCHANGED <<vars, procvars, env, query, reply>>

\* getToolDefinition(id, config)
CallGetToolDefinition ==
  /\ answer' = [op |-> "lookup", tools |-> <<>>,
                found |-> getToolDefinition(query.id, query.config)]
  /\ UNCHANGED <<vars, procvars, env, query, reply>>

\* the process environment is changed
SetEnv ==
  /\ \E e \in Envs \ {env} : env' = e
  /\ UNCHANGED <<vars, procvars, query, answer, reply>>

\* the handler of the definition the caller looked up is invoked and settles
CallHandler ==
  /\ answer.found.def
  /\ \E remote \in RemoteOutcomes :
       reply' = [by |-> "handler", id |-> answer.found.val.id,
                 apiKey |-> apiKeyHeader(answer.found.val.config, env),
                 remote |-> remote,
                 info |-> NoInfo,
                 settled |-> handler(answer.found.val, remote)]
  /\ UNCHANGED <<vars, procvars, env, query, answer>>

\* formatError(message)
CallFormatError ==
  /\ \E message \in Messages :
       reply' = [by |-> "formatError", id |-> <<>>, apiKey |-> <<>>,
                 remote |-> Fulfilled("none"),
                 info |-> NoInfo,
                 settled |-> [ok |-> TRUE, result |-> formatError(message),
                              err |-> Caught(Err(<<>>))]]
  /\ UNCHANGED <<vars, procvars, env, query, answer>>

\* getAxiosErrorInfo(error) on a value a handler caught
CallGetAxiosErrorInfo ==
  /\ \E remote \in { r \in RemoteOutcomes : ~r.ok } :
       reply' = [by |-> "getAxiosErrorInfo", id |-> <<>>, apiKey |-> <<>>,
                 remote |-> remote,
                 info |-> getAxiosErrorInfo(remote.error),
                 settled |-> NoReply.settled]
  /\ UNCHANGED <<vars, procvars, env, query, answer>>

ToolNext ==
  \/ CallCreateToolRegistry
  \/ CallGetToolDefinition
  \/ SetEnv
  \/ CallHandler
  \/ CallFormatError
  \/ CallGetAxiosErrorInfo

ToolSpec == ToolInit /\ [][ToolNext]_<<vars, elsewhere>>

\* ------------------------------------- several invocations in one process

MaxRuns == 3

\* the argument lists of the calls: --list-tools bare and with other flags,
\* crawling_exa with a literal and a key, with stdin and no key, with a file
\* and an empty key
ProcArgvs ==
  { <<LIST_TOOLS>>,
    <<PRETTY, LIST_TOOLS, API_KEY, K2>>,
    <<CRAWLING, INPUT, <<JUrl>>, API_KEY, K1>>,
    <<CRAWLING>>,
    <<CRAWLING, INPUT_FILE, <<"g">>, API_KEY, <<>>, PRETTY>> }

\* the io.stdin of a call: one with text(), one with on() only
ProcStdins ==
  { [isTTY |-> "false", size |-> "absent", text |-> "function",
     stream |-> "absent", on |-> "absent"],
    [isTTY |-> "absent", size |-> "finite", text |-> "absent",
     stream |-> "absent", on |-> "function"] }

ProcReads ==
  { [ok |-> TRUE, text |-> <<JUrl>>, err |-> Err(<<>>)],
    [ok |-> FALSE, text |-> <<>>, err |-> Err(<<"ENOENT">>)] }

ProcChunks == { Some(<<JUrl>>) }

ProcRemotes ==
  { Fulfilled("results"),
    Failed(AxiosError(<<"fallback">>, Response(500, MessageBody(<<"bad">>)))) }

\* Bun.env.EXA_API_KEY in this process: unset or set
ProcEnvs == { None, Some(<<"e">>) }

ProcInit ==
  /\ argv = <<>>
  /\ Unstarted
  /\ env \in ProcEnvs
  /\ query = NoQuery
  /\ answer = NoAnswer
  /\ reply = NoReply
  /\ ProcIdle

\* mutant: the registry built by the first call is kept and handed out again
registryConfig_Memoised(config, last) == IF last.def THEN last.val ELSE config

\* const tools = createToolRegistry(config): every lookup builds its registry
\* anew from the config it was given, whatever was built before
registryConfig(config, last) == config

\* mutant: --list-tools printed as --pretty asks
listTools_AsAsked(options, sink) ==
  printJson(summaryOf(createToolRegistry(Config(options.apiKey))),
            options.pretty, sink)

\* the --list-tools branch: the registry of the empty config, summarised and
\* always pretty-printed
listTools(options, sink) ==
  printJson(summaryOf(createToolRegistry(EmptyConfig)), TRUE, sink)

\* runCli from its call to its first await, as the slot it leaves behind
begin(a, io, last) ==
  LET toolId == parseArgs(a).toolId
      options == parseArgs(a).options
      config == Config(options.apiKey)
      found == getToolDefinition(toolId.val, registryConfig(config, last))
      branch == dispatch(toolId, options, found)
      source == resolveInput(options, io)
      base == [IdleSlot EXCEPT !.argv = a]
  IN CASE branch = "help" ->
            [base EXCEPT !.pc = "returned", !.stdout = <<RawChunk(usage)>>,
                         !.ret = Return(0)]
       [] branch = "listTools" ->
            [base EXCEPT !.pc = "returned", !.built = <<EmptyConfig>>,
                         !.stdout = listTools(options, <<>>), !.ret = Return(0)]
       [] branch = "missingTool" ->
            [base EXCEPT !.pc = "returned",
                         !.stderr = <<RawChunk(<<"Missing tool_id.", "\n">>)>>,
                         !.stdout = <<RawChunk(usage)>>, !.ret = Return(1)]
       [] branch = "unknownTool" ->
            [base EXCEPT !.pc = "returned", !.built = <<config>>,
                         !.stdout = printJson(formatError(<<"Unknown tool: ">> \o toolId.val),
                                              options.pretty, <<>>),
                         !.ret = Return(1)]
       [] OTHER ->
            [base EXCEPT
               !.pc = "await_input",
               !.built = <<config>>,
               !.tool = found,
               !.stdin = IF source.src \in {"stdin", "tty"} THEN Observed(io)
                                                            ELSE Unobserved,
               !.listening = (source.src = "stdin" /\ source.via = "on"),
               !.input =
                 CASE source.src \in {"inputFile", "atFile"} -> Pending(source.src)
                   [] source.src = "literal" -> Resolved("literal", Some(source.value))
                   [] source.src = "stdin" ->
                        IF source.via = "none"
                          THEN Resolved("stdin", stdinResult(<<>>))
                          ELSE Pending("stdin")
                   [] OTHER -> Resolved("tty", None)]

\* runCli from the settling of resolveInput to its return or to the await of
\* the handler; e is the environment at that moment
afterInput(s, e) ==
  LET options == parseArgs(s.argv).options
      parsed == JsonParse(s.input.val.val)
      args == SchemaParse(s.tool.val.schema, parsed.value)
      rejected == inputRejected(s.input.err, options.pretty, s.stdout)
  IN IF s.input.state = "rejected" THEN
       [s EXCEPT !.ret = rejected.ret, !.stdout = rejected.stdout,
                 !.pc = IF rejected.ret.kind = "error" THEN "rejected" ELSE "returned"]
     ELSE IF ~Truthy(s.input.val) THEN
       [s EXCEPT !.stdout = printJson(formatError(<<"Missing --input JSON or stdin input.">>),
                                      options.pretty, s.stdout),
                 !.ret = Return(1), !.pc = "returned"]
     ELSE IF ~parsed.ok THEN
       [s EXCEPT !.stdout = catchClause(parsed.error, options.pretty, s.stdout),
                 !.ret = Return(1), !.pc = "returned"]
     ELSE IF ~args.ok THEN
       [s EXCEPT !.stdout = catchClause(args.error, options.pretty, s.stdout),
                 !.ret = Return(1), !.pc = "returned"]
     ELSE
       [s EXCEPT !.call = [made |-> TRUE, id |-> s.tool.val.id,
                           config |-> s.tool.val.config, args |-> args.value,
                           apiKey |-> apiKeyHeader(s.tool.val.config, e)],
                 !.pc = "await_handler"]

\* runCli from the settling of the handler to its return
afterHandler(s, remote) ==
  LET pretty == parseArgs(s.argv).options.pretty
      settled == handler(s.tool.val, remote)
      thrown == handlerRejected(settled.err, pretty, s.stdout)
  IN IF settled.ok THEN
       [s EXCEPT !.remote = remote,
                 !.stdout = printJson(settled.result, pretty, s.stdout),
                 !.ret = Return(exitCodeOf(settled.result)), !.pc = "returned"]
     ELSE
       [s EXCEPT !.remote = remote, !.stdout = thrown.stdout, !.ret = thrown.ret,
                 !.pc = IF thrown.ret.kind = "error" THEN "rejected" ELSE "returned"]

\* the host sets or unsets EXA_API_KEY
ProcSetEnv ==
  /\ \E e \in ProcEnvs \ {env} : env' = e
  /\ UNCHANGED <<vars, query, answer, reply, procvars>>

Free(i) == inv[i].pc \in {"idle", "returned", "rejected"}

\* runCli is called; its invocation takes the first free slot
ProcStart(i) ==
  /\ Free(i)
  /\ \A j \in Slots : Free(j) => i <= j
  /\ runs < MaxRuns
  /\ runs' = runs + 1
  /\ \E a \in ProcArgvs, io \in ProcStdins :
       LET s == begin(a, io, lastConfig) IN
         /\ inv' = [inv EXCEPT ![i] = s]
         /\ lastConfig' = IF s.built = <<>> THEN lastConfig
                          ELSE IF lastConfig.def THEN lastConfig
                          ELSE [def |-> TRUE, val |-> s.built[1]]
         /\ listed' = IF \E k \in 1..Len(a) : a[k] = LIST_TOOLS
                        THEN listed \cup {[run |-> runs + 1, argv |-> a, stdout |-> s.stdout,
                                           ret |-> s.ret]}
                        ELSE listed
  /\ UNCHANGED <<vars, toolvars>>

\* the awaited read of a file or of stdin's text settles
ProcReadSettle(i) ==
  /\ inv[i].pc = "await_input"
  /\ inv[i].input.state = "pending"
  /\ \/ inv[i].input.src \in {"inputFile", "atFile"}
     \/ inv[i].input.src = "stdin" /\ readStdin(inv[i].stdin) \in {"text", "stream"}
  /\ \E o \in ProcReads :
       inv' = [inv EXCEPT ![i].input =
                 IF ~o.ok THEN Rejected(@.src, o.err)
                 ELSE IF @.src = "stdin" THEN Resolved("stdin", stdinResult(o.text))
                 ELSE Resolved(@.src, Some(o.text))]
  /\ UNCHANGED <<vars, toolvars, runs, lastConfig, listed>>

\* stdin emits "data", "end" or "error" while readStdin's promise is pending
\* (what it emits afterwards reaches nothing the invocation reads)
ProcStdinData(i) ==
  /\ inv[i].listening
  /\ inv[i].input.state = "pending"
  /\ inv[i].events < MaxEvents
  /\ \E chunk \in ProcChunks :
       inv' = [inv EXCEPT ![i].data = onData(@, chunk),
                          ![i].events = @ + 1]
  /\ UNCHANGED <<vars, toolvars, runs, lastConfig, listed>>

ProcStdinEnd(i) ==
  /\ inv[i].listening
  /\ inv[i].input.state = "pending"
  /\ inv[i].events < MaxEvents
  /\ inv' = [inv EXCEPT ![i].events = @ + 1,
                        ![i].input =
                          settleOnce(@, Resolved("stdin", stdinResult(inv[i].data)))]
  /\ UNCHANGED <<vars, toolvars, runs, lastConfig, listed>>

ProcStdinError(i) ==
  /\ inv[i].listening
  /\ inv[i].input.state = "pending"
  /\ inv[i].events < MaxEvents
  /\ inv' = [inv EXCEPT ![i].events = @ + 1,
                        ![i].input =
                          settleOnce(@, Rejected("stdin", Err(<<"EIO">>)))]
  /\ UNCHANGED <<vars, toolvars, runs, lastConfig, listed>>

ProcResumeAfterInput(i) ==
  /\ inv[i].pc = "await_input"
  /\ inv[i].input.state \in {"resolved", "rejected"}
  /\ inv' = [inv EXCEPT ![i] = afterInput(@, env)]
  /\ UNCHANGED <<vars, toolvars, runs, lastConfig, listed>>

ProcResumeAfterHandler(i) ==
  /\ inv[i].pc = "await_handler"
  /\ \E remote \in ProcRemotes :
       inv' = [inv EXCEPT ![i] = afterHandler(@, remote)]
  /\ UNCHANGED <<vars, toolvars, runs, lastConfig, listed>>

ProcNext ==
  \/ ProcSetEnv
  \/ \E i \in Slots :
       \/ ProcStart(i)
       \/ ProcReadSettle(i)
       \/ ProcStdinData(i)
       \/ ProcStdinEnd(i)
       \/ ProcStdinError(i)
       \/ ProcResumeAfterInput(i)
       \/ ProcResumeAfterHandler(i)

ProcSpec == ProcInit /\ [][ProcNext]_<<vars, elsewhere>>

\* ------------------------------------------------- any argument list at all

\* argv is any sequence of at most MaxArgs tokens
MaxArgs == 3

VERBOSE == <<"--verbose">>
HELPX == <<"--help", "x">>

\* the recognized flags, the empty string, a tool id, and two tokens that
\* look like options but are none
Tokens ==
  { <<>>, HELP, H, LIST_TOOLS, PRETTY, API_KEY, INPUT, I, INPUT_FILE,
    CRAWLING, VERBOSE, HELPX }

TokenArgvs == UNION { [1..n -> Tokens] : n \in 0..MaxArgs }

ArgsInit ==
  /\ argv \in TokenArgvs
  /\ Unstarted
  /\ ToolIdle
  /\ ProcIdle

\* runCli is called and runs up to its first await
ArgsNext == RunCliStart

ArgsSpec == ArgsInit /\ [][ArgsNext]_<<vars, elsewhere>>

\* ------------------------------------------------------------------ claims

Settled == ret.kind # "none"
Started == pc # "init"

\* the error-shaped document the claims expect, written out field by field
ErrorDoc(text) ==
  [content |-> <<[type |-> "text", text |-> text]>>, isError |-> "true"]

\* one JSON line on stdout, compact or pretty as --pretty asks
JsonLine(payload) ==
  [format |-> IF Parsed.options.pretty THEN "pretty" ELSE "compact",
   body |-> payload, trailer |-> <<"\n">>]

\* the message of a thrown value: an Error's message, String(value) otherwise
MessageOf(e) == IF e.kind = "Error" THEN e.message ELSE e.str

FileSources == {"inputFile", "atFile"}

\* a file read of input resolution failed and runCli has moved past its await
FileReadFailed ==
  input.state = "rejected" /\ input.src \in FileSources /\ pc # "await_input"

\* C1: a completed runCli returns 0 or 1, and 0 exactly when help was
\* requested, or list-tools was (and help was not), or the handler was invoked
\* and returned a result whose isError flag is not set.
C1_ExitCodes ==
  ret.kind = "code" =>
    /\ ret.code \in {0, 1}
    /\ ret.code = 0 <=>
         \/ Parsed.options.help
         \/ Parsed.options.listTools
         \/ /\ handlerCalls # <<>>
            /\ outcome.kind = "result"
            /\ outcome.result.isError # "true"

C1_Witness ==
  /\ ret = Return(0)
  /\ handlerCalls # <<>>
  /\ outcome.kind = "result"
  /\ outcome.result.isError = "false"

WellFormedChunk(c) ==
  \/ c = RawChunk(usage)
  \/ c.format \in {"pretty", "compact"} /\ c.trailer = <<"\n">>

MissingToolPath ==
  /\ Started
  /\ ~Parsed.options.help
  /\ ~Parsed.options.listTools
  /\ ~Truthy(Parsed.toolId)

MissingToolLine == RawChunk(<<"Missing tool_id.", "\n">>)

ValueFlags == {API_KEY, INPUT, I, INPUT_FILE}

\* whether --help or -h stands in argv at a place where it is not the value
\* of a value-taking flag
RECURSIVE HelpAsFlag(_)
HelpAsFlag(a) ==
  IF a = <<>> THEN FALSE
  ELSE IF Head(a) \in ValueFlags
    THEN (IF Len(a) <= 2 THEN FALSE ELSE HelpAsFlag(SubSeq(a, 3, Len(a))))
  ELSE Head(a) \in {HELP, H} \/ HelpAsFlag(Tail(a))

\* C6: when --help or -h is parsed as a flag, runCli writes the usage text to
\* stdout and returns 0 whatever else argv holds, and performs no registry
\* lookup, no input read and no handler invocation.
C6_HelpShortCircuits ==
  (HelpAsFlag(argv) /\ Started) =>
    /\ stdout = <<RawChunk(usage)>>
    /\ stderr = <<>>
    /\ ret = Return(0)
    /\ registries = <<>>
    /\ ~tool.def
    /\ input = NoPromise
    /\ fileReads = <<>>
    /\ stdinReads = 0
    /\ stdin = Unobserved
    /\ handlerCalls = <<>>

C6_Witness ==
  /\ HelpAsFlag(argv)
  /\ Parsed.options.listTools
  /\ Parsed.toolId = Some(NOPE)
  /\ ret = Return(0)

IsToolId(id) == \E i \in 1..Len(TOOL_IDS) : TOOL_IDS[i] = id

UnknownToolPath ==
  /\ Started
  /\ ~Parsed.options.help
  /\ ~Parsed.options.listTools
  /\ Truthy(Parsed.toolId)
  /\ ~IsToolId(Parsed.toolId.val)

\* C7: an identifier that is not in the registry (help and list-tools not
\* requested) gives the error result "Unknown tool: <id>" and the return value
\* 1, whether or not input was supplied; no input source is read.
C7_UnknownTool ==
  UnknownToolPath =>
    /\ stdout = <<JsonLine(ErrorDoc(<<"Unknown tool: ">> \o Parsed.toolId.val))>>
    /\ ret = Return(1)
    /\ ~tool.def
    /\ input = NoPromise
    /\ fileReads = <<>>
    /\ stdinReads = 0
    /\ handlerCalls = <<>>

C7_Witness ==
  /\ UnknownToolPath
  /\ Parsed.toolId = Some(NOPE)
  /\ Truthy(Parsed.options.inputFile)
  /\ ret = Return(1)

\* input resolution has been entered
Resolving == input.state # "none"

\* C8: with --input-file (a non-empty path) and --input both supplied, in
\* either order, the input is the content of the --input-file path; the
\* literal is not used, the @file it may name is not read, stdin is not read.
C8_InputFileWins ==
  (Resolving /\ Truthy(Parsed.options.inputFile) /\ Parsed.options.input.def) =>
    /\ input.src = "inputFile"
    /\ fileReads = <<Parsed.options.inputFile.val>>
    /\ stdinReads = 0
    /\ stdin = Unobserved
    /\ input.state = "resolved" => (content.def /\ input.val = content)

C8_Witness ==
  /\ input.state = "resolved"
  /\ Parsed.options.inputFile = Some(<<"g">>)
  /\ Parsed.options.input = Some(<<"@", "f">>)
  /\ input.val = Some(<<JUrl>>)
  /\ fileReads = << <<"g">> >>

\* C9: a string yielded by resolveInput is the content of the selected source
\* unaltered: the literal verbatim, the whole content of the file named by the
\* literal without its leading '@', the whole content of the --input-file
\* path, or the untrimmed stdin text.
C9_ExactContent ==
  (input.state = "resolved" /\ input.val.def) =>
    /\ content.def
    /\ input.val.val = content.val
    /\ input.src = "literal" =>
         /\ input.val.val = Parsed.options.input.val
         /\ Head(input.val.val) # "@"
         /\ fileReads = <<>>
    /\ input.src = "atFile" =>
         /\ Head(Parsed.options.input.val) = "@"
         /\ fileReads = <<Tail(Parsed.options.input.val)>>
    /\ input.src = "inputFile" =>
         fileReads = <<Parsed.options.inputFile.val>>
    /\ input.src = "stdin" =>
         /\ fileReads = <<>>
         /\ \E i \in 1..Len(content.val) : content.val[i] \notin Whitespace

C9_Witness ==
  /\ input.state = "resolved"
  /\ input.src = "stdin"
  /\ input.val = Some(<<" ", JEmpty, "\n">>)

AllWhitespace(text) == \A i \in 1..Len(text) : text[i] \in Whitespace

MissingInputLine == JsonLine(ErrorDoc(<<"Missing --input JSON or stdin input.">>))

\* the drained stdin text is blank, or stdin has nothing to drain it with
BlankStdin ==
  /\ ~Parsed.options.input.def
  /\ ~Parsed.options.inputFile.def
  /\ input.src = "stdin"
  /\ input.state = "resolved"
  /\ content.def
  /\ AllWhitespace(content.val)

\* C10: with no --input and no --input-file, a non-terminal stdin whose text
\* is empty or whitespace-only, or which has no read capability, is the same
\* as no input: resolveInput yields absent, runCli writes "Missing --input
\* JSON or stdin input." and returns 1, and the handler is not invoked.
C10_BlankStdinIsMissingInput ==
  BlankStdin =>
    /\ ~input.val.def
    /\ handlerCalls = <<>>
    /\ pc # "await_input" =>
         /\ stdout = <<MissingInputLine>>
         /\ ret = Return(1)

C10_Witness ==
  /\ BlankStdin
  /\ content = Some(<<" ">>)
  /\ ret = Return(1)
  /\ stdout = <<MissingInputLine>>

\* ---- stdin classification

NoFileOrLiteral ==
  ~Truthy(Parsed.options.inputFile) /\ ~Truthy(Parsed.options.input)

\* the classification as the claim words it, read off the recorded stdin
Terminal ==
  CASE stdin.isTTY = "true" -> TRUE
    [] stdin.isTTY = "false" -> FALSE
    [] stdin.size \in {"finite", "nonfinite"} -> stdin.size = "nonfinite"
    [] OTHER -> FALSE

\* C11: when neither a file nor a literal applies, stdin is a terminal when
\* its boolean isTTY says so, else when its numeric size is non-finite, else
\* not.  A terminal is never read and the invocation ends in the missing-input
\* error with exit 1; anything else is drained by one readStdin call.
C11_TerminalClassification ==
  (Resolving /\ NoFileOrLiteral) =>
    /\ stdin.isTTY \in {"true", "false", "absent"}
    /\ fileReads = <<>>
    /\ Terminal =>
         /\ stdinReads = 0
         /\ ~listening
         /\ ~content.def
         /\ stdin.text = "unread" /\ stdin.stream = "unread" /\ stdin.on = "unread"
         /\ input = Resolved("tty", None)
         /\ handlerCalls = <<>>
         /\ pc # "await_input" => (stdout = <<MissingInputLine>> /\ ret = Return(1))
    /\ ~Terminal =>
         /\ stdinReads = 1
         /\ input.src = "stdin"
         /\ stdin.text # "unread"

C11_Witness ==
  /\ Resolving /\ NoFileOrLiteral
  /\ stdin.isTTY = "absent" /\ stdin.size = "nonfinite"
  /\ stdinReads = 0
  /\ ret = Return(1)
  /\ stdout = <<MissingInputLine>>

\* ---- JSON and schema failures

\* the input text with its whitespace left out
Squeezed(text) == SelectSeq(text, LAMBDA c : c \notin Whitespace)

\* the texts crawling_exa accepts: one JSON object with a string url
AcceptedByCrawling(text) == Squeezed(text) = <<JUrl>>

\* an input was resolved for crawling_exa that is no JSON document or is one
\* its schema refuses
BadInput ==
  /\ Resolving
  /\ input.state = "resolved"
  /\ Truthy(input.val)
  /\ tool.val.id = CRAWLING
  /\ ~AcceptedByCrawling(input.val.val)

CliErrorLine(c) ==
  /\ c.format = (IF Parsed.options.pretty THEN "pretty" ELSE "compact")
  /\ c.trailer = <<"\n">>
  /\ c.body.isError = "true"
  /\ Len(c.body.content) = 1
  /\ c.body.content[1].type = "text"
  /\ Head(c.body.content[1].text) = "CLI error: "
  /\ Len(c.body.content[1].text) > 1

\* C12: an input text that is not valid JSON, or is valid JSON the tool's
\* schema refuses, makes runCli write one error-shaped result whose text
\* starts with "CLI error: " and return 1; the handler is never invoked.
C12_BadInputIsCliError ==
  BadInput =>
    /\ handlerCalls = <<>>
    /\ outcome = NoOutcome
    /\ pc # "await_handler"
    /\ pc # "await_input" =>
         /\ ret = Return(1)
         /\ Len(stdout) = 1
         /\ CliErrorLine(stdout[1])

C12_Witness ==
  /\ BadInput
  /\ Squeezed(input.val.val) = <<JEmpty>>
  /\ ret = Return(1)
  /\ stdout = <<JsonLine(ErrorDoc(<<"CLI error: ", "Invalid input">>))>>

\* ---- handler failures

\* C13: when the invoked handler throws or rejects, runCli writes the
\* error-shaped result whose text is "CLI error: " followed by the Error's
\* message, or by String(value) for a value that is no Error, and returns 1.
C13_HandlerThrowIsCliError ==
  outcome.kind = "thrown" =>
    /\ ret = Return(1)
    /\ stdout = <<JsonLine(ErrorDoc(<<"CLI error: ">> \o
                    (IF outcome.err.kind = "Error" THEN outcome.err.message
                                                   ELSE outcome.err.str)))>>
    /\ stderr = <<>>
    /\ Len(handlerCalls) = 1

C13_Witness ==
  /\ outcome.kind = "thrown"
  /\ outcome.err = Err(<<"ENOENT">>)
  /\ stdout = <<JsonLine(ErrorDoc(<<"CLI error: ", "ENOENT">>))>>
  /\ ret = Return(1)

\* ---- the registry

\* C14: the ids of the definitions createToolRegistry returns, and so the ids
\* of the --list-tools summary made from them, are the ids of TOOL_IDS
\* element for element in the same order, each exactly once, whatever the
\* config.
C14_RegistryOrder ==
  answer.op = "create" =>
    /\ Len(answer.tools) = Len(TOOL_IDS)
    /\ \A i \in 1..Len(TOOL_IDS) :
         /\ answer.tools[i].id = TOOL_IDS[i]
         /\ summaryOf(answer.tools)[i].id = TOOL_IDS[i]
    /\ \A i, j \in 1..Len(answer.tools) :
         answer.tools[i].id = answer.tools[j].id => i = j

C14_Witness ==
  /\ answer.op = "create"
  /\ query.config = Config(Some(K2))
  /\ answer.tools[4].id = CRAWLING
  /\ answer.tools[4].config = Config(Some(K2))

\* C16: getToolDefinition(id, config) returns a definition exactly when id is
\* one of TOOL_IDS, and that definition has the id asked for; for any other
\* string it returns absent.
C16_LookupExact ==
  answer.op = "lookup" =>
    /\ answer.found.def <=> IsToolId(query.id)
    /\ answer.found.def => answer.found.val.id = query.id
    /\ ~answer.found.def => answer.found = NoTool

C16_Witness ==
  /\ answer.op = "lookup"
  /\ query.id = <<"linkedin_search_exa">>
  /\ answer.found.def
  /\ answer.found.val.id = <<"linkedin_search_exa">>
  /\ answer.found.val.label = <<"LinkedIn search">>

\* ---- handler failures reported by the handlers

\* the label a tool's texts begin with
LabelOf(id) ==
  LET tools == createToolRegistry(EmptyConfig)
  IN tools[CHOOSE i \in 1..Len(tools) : tools[i].id = id].label

\* the three-way text as the claim words it
ThreeWay(label, e) ==
  CASE e.kind = "AxiosError" ->
         label \o <<" error (">>
           \o (IF e.response.def THEN <<ToString(e.response.status)>>
                                 ELSE <<"unknown">>)
           \o <<"): ">>
           \o (IF e.response.def /\ e.response.data.type = "object"
                  /\ e.response.data.hasMessage
                  /\ e.response.data.messageType = "string"
                 THEN e.response.data.message ELSE e.message)
    [] e.kind = "Error" -> label \o <<" error: ">> \o e.message
    [] OTHER -> label \o <<" error: ">> \o e.str

\* a handler was invoked and its remote call failed
RemoteFailed == reply.by = "handler" /\ ~reply.remote.ok

TaskNotFoundCase ==
  /\ RemoteFailed
  /\ reply.id = <<"deep_researcher_check">>
  /\ reply.remote.error.kind = "AxiosError"
  /\ reply.remote.error.response.def
  /\ reply.remote.error.response.status = 404

\* C17 as stated: every handler answers every failure of its remote call,
\* a 404 included, with the three-way text.
C17_Original ==
  RemoteFailed =>
    /\ reply.settled.ok
    /\ reply.settled.result.content[1].text =
         ThreeWay(LabelOf(reply.id), reply.remote.error)

\* C17 amended: every handler answers a failure of its remote call with the
\* three-way text, except that deep_researcher_check answers a recognized
\* remote failure with status 404 with its own "Task not found" text.
C17_ThreeWayBut404OfCheck ==
  RemoteFailed =>
    /\ reply.settled.ok
    /\ reply.settled.result.isError = "true"
    /\ Len(reply.settled.result.content) = 1
    /\ IF TaskNotFoundCase
         THEN reply.settled.result.content[1].text = <<"Task not found">>
         ELSE reply.settled.result.content[1].text =
                ThreeWay(LabelOf(reply.id), reply.remote.error)

C17_Witness ==
  /\ RemoteFailed
  /\ reply.id = <<"crawling_exa">>
  /\ reply.remote.error.kind = "AxiosError"
  /\ reply.remote.error.response.def
  /\ reply.remote.error.response.status = 404
  /\ reply.settled.result.content[1].text =
       <<"Crawling", " error (", "404", "): ", "Not found">>

\* ---- the shape of every ToolResult

\* C18: every ToolResult produced (a handler's result for a response with
\* results, for one without, for a caught failure, and every payload
\* formatError builds) has at least one content block, all of them text
\* blocks; and a failure of a handler's remote call comes back as a
\* ToolResult with isError true and is not thrown out of the handler.
C18_ContentNeverEmpty ==
  reply.by # "none" =>
    /\ reply.settled.ok
    /\ Len(reply.settled.result.content) >= 1
    /\ \A i \in 1..Len(reply.settled.result.content) :
         reply.settled.result.content[i].type = "text"
    /\ reply.by = "formatError" => reply.settled.result.isError = "true"
    /\ RemoteFailed => reply.settled.result.isError = "true"

C18_Witness ==
  /\ reply.by = "handler"
  /\ reply.id = <<"linkedin_search_exa">>
  /\ reply.remote = Failed(Caught(Thrown(<<"boom">>)))
  /\ reply.settled.ok
  /\ reply.settled.result =
       [content |-> <<[type |-> "text",
                       text |-> <<"LinkedIn search", " error: ", "boom">>]>>,
        isError |-> "true"]

\* ---- several invocations in one process

Has(a, flag) == \E k \in 1..Len(a) : a[k] = flag

\* the value --api-key is given in an argument list
KeyOf(a) ==
  IF \E k \in 1..(Len(a) - 1) : a[k] = API_KEY
    THEN Some(a[1 + CHOOSE k \in 1..(Len(a) - 1) : a[k] = API_KEY])
    ELSE None

\* the --list-tools document: id and description of each tool in the order
\* of TOOL_IDS, pretty-printed, one newline after it
ListLine ==
  [format |-> "pretty",
   body |-> [i \in 1..Len(TOOL_IDS) |->
               [id |-> TOOL_IDS[i],
                description |-> createToolRegistry(EmptyConfig)[i].description]],
   trailer |-> <<"\n">>]

\* C15: every --list-tools invocation of a process writes the same bytes and
\* returns 0, whatever ran before it or in between and whatever --pretty or
\* --api-key it was given: the pretty-printed summary of the registry.
C15_ListToolsIdempotent ==
  /\ \A o \in listed : o.stdout = <<ListLine>> /\ o.ret = Return(0)
  /\ \A o1, o2 \in listed : o1.stdout = o2.stdout /\ o1.ret = o2.ret

C15_Witness ==
  /\ Cardinality(listed) = 2
  /\ \E o1, o3 \in listed :
       /\ o1.run = 1 /\ o1.argv = <<LIST_TOOLS>>
       /\ o3.run = 3 /\ o3.argv = <<PRETTY, LIST_TOOLS, API_KEY, K2>>
       /\ o1.stdout = o3.stdout
  /\ \E i \in Slots :
       /\ inv[i].call.made
       /\ inv[i].call.config = Config(Some(K1))

\* one JSON line as the invocation's own --pretty asks
LineOf(a, payload) ==
  [format |-> IF Has(a, PRETTY) THEN "pretty" ELSE "compact",
   body |-> payload, trailer |-> <<"\n">>]

\* what the invocation in slot s writes and returns when it runs alone, given
\* its own argument list, the input it resolved and the answer its remote
\* call got
AsAlone(s) ==
  IF Has(s.argv, LIST_TOOLS) THEN
    s.stdout = <<ListLine>> /\ s.stderr = <<>> /\ s.ret = Return(0)
  ELSE IF s.input.state = "rejected" THEN
    s.stdout = <<>> /\ s.stderr = <<>> /\ s.ret = Reject(s.input.err)
  ELSE IF ~s.input.val.def THEN
    /\ s.stdout = <<LineOf(s.argv, ErrorDoc(<<"Missing --input JSON or stdin input.">>))>>
    /\ s.stderr = <<>> /\ s.ret = Return(1)
  ELSE IF ~AcceptedByCrawling(s.input.val.val) THEN
    /\ Len(s.stdout) = 1
    /\ s.stdout[1].format = LineOf(s.argv, <<>>).format
    /\ s.stdout[1].body.isError = "true"
    /\ Head(s.stdout[1].body.content[1].text) = "CLI error: "
    /\ s.stderr = <<>> /\ s.ret = Return(1)
  ELSE IF s.remote.ok THEN
    /\ s.stdout = <<LineOf(s.argv,
                      [content |-> <<[type |-> "text",
                                      text |-> <<"JSON.stringify(response.data)">>]>>,
                       isError |-> "absent"])>>
    /\ s.stderr = <<>> /\ s.ret = Return(0)
  ELSE
    /\ s.stdout = <<LineOf(s.argv,
                      ErrorDoc(ThreeWay(<<"Crawling">>, s.remote.error)))>>
    /\ s.stderr = <<>> /\ s.ret = Return(1)

\* C19: invocations of one process that overlap at their awaits do not
\* interfere: each writes to its own sinks and returns what it would alone,
\* and the definition it uses carries the config of its own --api-key.
C19_NoInterference ==
  \A i \in Slots :
    /\ inv[i].pc \in {"returned", "rejected"} => AsAlone(inv[i])
    /\ inv[i].pc \in {"await_input", "await_handler"} =>
         /\ inv[i].stdout = <<>> /\ inv[i].stderr = <<>>
         /\ inv[i].tool.val.config = [exaApiKey |-> KeyOf(inv[i].argv)]
    /\ inv[i].call.made =>
         /\ inv[i].call.id = CRAWLING
         /\ inv[i].call.config = [exaApiKey |-> KeyOf(inv[i].argv)]

C19_Witness ==
  /\ inv[1].argv = <<CRAWLING, INPUT, <<JUrl>>, API_KEY, K1>>
  /\ inv[2].argv = <<CRAWLING, INPUT_FILE, <<"g">>, API_KEY, <<>>, PRETTY>>
  /\ inv[1].pc = "returned" /\ inv[2].pc = "returned"
  /\ runs = 2
  /\ inv[1].call.config = Config(Some(K1))
  /\ inv[2].call.config = Config(Some(<<>>))
  /\ inv[1].ret = Return(1) /\ inv[2].ret = Return(0)
  /\ inv[1].stdout[1].format = "compact" /\ inv[2].stdout[1].format = "pretty"

\* the credential the claim words: the --api-key value when present and
\* non-empty, else the environment variable when set and non-empty, else ""
Credential(key, e) ==
  IF key.def /\ key.val # <<>> THEN key.val
  ELSE IF e.def /\ e.val # <<>> THEN e.val
  ELSE <<>>

\* C20: in the step in which an invocation calls its handler, the credential
\* the handler sends is the invocation's --api-key value when present and
\* non-empty, else EXA_API_KEY as it stands in that step, else the empty
\* string; a --list-tools invocation builds its registry with the empty
\* config and calls no handler.
C20_Credential ==
  [][\A i \in Slots :
       /\ (~inv[i].call.made /\ inv'[i].call.made) =>
            inv'[i].call.apiKey = Credential(KeyOf(inv'[i].argv), env)
       /\ (inv[i].call.made /\ inv'[i].argv = inv[i].argv
             /\ inv'[i].pc # "await_input") =>
            inv'[i].call = inv[i].call
       /\ Has(inv'[i].argv, LIST_TOOLS) =>
            /\ inv'[i].built = <<[exaApiKey |-> None]>>
            /\ ~inv'[i].call.made]_<<vars, elsewhere>>

C20_Witness ==
  \E i \in Slots :
    /\ inv[i].argv = <<CRAWLING, INPUT_FILE, <<"g">>, API_KEY, <<>>, PRETTY>>
    /\ inv[i].pc = "await_handler"
    /\ inv[i].call.apiKey = <<"e">>
    /\ env = None

\* ---- parseArgs on any argument list

\* position k of a holds the value of a value-taking flag
RECURSIVE Consumed(_, _)
Consumed(a, k) == k > 1 /\ a[k - 1] \in ValueFlags /\ ~Consumed(a, k - 1)

\* positions at which one of the tokens stands as a flag
FlagAt(a, flags) == { k \in 1..Len(a) : a[k] \in flags /\ ~Consumed(a, k) }

Max(S) == CHOOSE k \in S : \A j \in S : j <= k
Min(S) == CHOOSE k \in S : \A j \in S : k <= j

\* the value the last occurrence of the flag was given: the token after it,
\* undefined when it stands last
ValueOf(a, flags) ==
  IF FlagAt(a, flags) = {} THEN None
  ELSE IF Max(FlagAt(a, flags)) = Len(a) THEN None
  ELSE Some(a[Max(FlagAt(a, flags)) + 1])

RecognizedFlags == {HELP, H, LIST_TOOLS, PRETTY, API_KEY, INPUT, I, INPUT_FILE}

\* positions of the tokens that are no flag, no value and not empty
Positionals(a) ==
  { k \in 1..Len(a) : a[k] # <<>> /\ a[k] \notin RecognizedFlags /\ ~Consumed(a, k) }

\* C21: each of --api-key, --input, -i and --input-file takes exactly the next
\* token as its value, verbatim, whatever that token is; the token taken is
\* neither read as a flag nor as the tool identifier.
C21_ValueFlagsConsumeNext ==
  /\ Parsed.options.apiKey = ValueOf(argv, {API_KEY})
  /\ Parsed.options.input = ValueOf(argv, {INPUT, I})
  /\ Parsed.options.inputFile = ValueOf(argv, {INPUT_FILE})
  /\ Parsed.options.help = (FlagAt(argv, {HELP, H}) # {})
  /\ Parsed.options.listTools = (FlagAt(argv, {LIST_TOOLS}) # {})
  /\ Parsed.options.pretty = (FlagAt(argv, {PRETTY}) # {})
  /\ Parsed.toolId.def =>
       \E k \in 1..Len(argv) : ~Consumed(argv, k) /\ argv[k] = Parsed.toolId.val

C21_Witness ==
  /\ argv = <<INPUT, HELP, CRAWLING>>
  /\ Parsed.options.input = Some(HELP)
  /\ ~Parsed.options.help
  /\ pc = "await_input"
  /\ input = Resolved("literal", Some(HELP))

\* a with the token at position k left out
Without(a, k) == SubSeq(a, 1, k - 1) \o SubSeq(a, k + 1, Len(a))

FirstPositional(a) ==
  IF Positionals(a) = {} THEN None ELSE Some(a[Min(Positionals(a))])

\* C22 as worded: the identifier is the first non-empty token that is no flag
\* and no flag value, and every empty token is skipped, so that leaving it
\* out of argv changes nothing.
C22_Original ==
  /\ Parsed.toolId = FirstPositional(argv)
  /\ \A k \in 1..Len(argv) :
       argv[k] = <<>> => parseArgs(Without(argv, k)) = Parsed

\* C22: the identifier is the first non-empty token that is no recognized
\* flag and no flag value, later such tokens never replace it, and an empty
\* token that is not the value of a flag is skipped: leaving it out of argv
\* changes neither the identifier nor any option.
C22_FirstPositionalWins ==
  /\ Parsed.toolId = FirstPositional(argv)
  /\ \A k \in 1..Len(argv) :
       (argv[k] = <<>> /\ ~Consumed(argv, k)) =>
         parseArgs(Without(argv, k)) = Parsed

C22_Witness ==
  /\ argv = << <<>>, CRAWLING, VERBOSE>>
  /\ Parsed.toolId = Some(CRAWLING)
  /\ Parsed.options = EmptyOptions
  /\ pc = "await_input"
  /\ tool.val.id = CRAWLING

\* the parse of the first k tokens of a
Upto(a, k) == parseArgs(SubSeq(a, 1, k))

\* the tokens of the model that look like options and are none
LooksLikeOption == {VERBOSE, HELPX}

\* C28: only the eight exact tokens are flags.  Any other non-empty token
\* that is no flag value sets no option and becomes the identifier if none is
\* set yet, also when it begins with a dash; so an unrecognized option before
\* the tool name (help and list-tools not asked) gives "Unknown tool: <that
\* option>" and the return value 1.
C28_OnlyExactFlags ==
  /\ \A k \in 1..Len(argv) :
       (argv[k] # <<>> /\ argv[k] \notin RecognizedFlags /\ ~Consumed(argv, k)) =>
         /\ Upto(argv, k).options = Upto(argv, k - 1).options
         /\ Upto(argv, k).toolId =
              IF Upto(argv, k - 1).toolId.def THEN Upto(argv, k - 1).toolId
                                              ELSE Some(argv[k])
  /\ (/\ Started
      /\ Positionals(argv) # {}
      /\ argv[Min(Positionals(argv))] \in LooksLikeOption
      /\ FlagAt(argv, {HELP, H, LIST_TOOLS}) = {}) =>
       /\ stdout = <<JsonLine(ErrorDoc(<<"Unknown tool: ">>
                                        \o argv[Min(Positionals(argv))]))>>
       /\ stderr = <<>>
       /\ ret = Return(1)
       /\ handlerCalls = <<>>

C28_Witness ==
  /\ argv = <<HELPX, CRAWLING, PRETTY>>
  /\ Parsed.toolId = Some(HELPX)
  /\ ~Parsed.options.help
  /\ ret = Return(1)
  /\ stdout[1].body = ErrorDoc(<<"Unknown tool: ", "--help", "x">>)

\* ---- the event-driven stdin drain

\* readStdin listens to stdin's events and its promise is not settled
Draining == listening /\ input.src = "stdin" /\ input.state = "pending"

\* what a chunk adds to the text: the chunk, nothing when it is undefined
ChunkTexts == { <<>> } \cup { c.val : c \in { ch \in Chunks : ch.def } }

IsPrefix(s, t) == Len(s) <= Len(t) /\ SubSeq(t, 1, Len(s)) = s

\* C23: while the drain is pending, a data event appends its chunk (nothing
\* for an undefined chunk) to the text collected so far, an end event
\* completes the drain with exactly that text, and an error event fails it
\* with the emitted error; the completed text is what was collected, in
\* arrival order, before the end.
C23_DrainConcatenates ==
  [][
     /\ (Draining /\ events' # events) =>
          \/ /\ input' = input
             /\ \E c \in ChunkTexts : data' = data \o c
          \/ /\ input' = Resolved("stdin", stdinResult(data))
             /\ content' = Some(data)
             /\ data' = data
          \/ /\ \E e \in Failures : input' = Rejected("stdin", e)
             /\ content' = content
             /\ data' = data
     /\ (listening /\ input.state = "resolved") =>
          /\ IsPrefix(content.val, data)
          /\ input.val = stdinResult(content.val)
  ]_vars

C23_Witness ==
  /\ listening
  /\ stdin.on = "function"
  /\ events = 3
  /\ content = Some(<<" ", JUrl>>)
  /\ input = Resolved("stdin", Some(<<" ", JUrl>>))

\* C30: the first of end and error fixes the outcome of the drain: once the
\* promise is settled, no later data, end or error event changes its state,
\* its text or its error, so the drain settles at most once.
C30_FirstSignalWins ==
  [][(listening /\ input.state \in {"resolved", "rejected"}) =>
       /\ input' = input
       /\ content' = content]_vars

C30_Witness ==
  /\ listening
  /\ events = 3
  /\ input = Resolved("stdin", Some(<<JUrl>>))
  /\ data = <<JUrl, " ">>
  /\ pc = "await_input"

\* ---- termination

\* C24: when every awaited collaborator settles, a started runCli settles,
\* unless it is draining an event-driven stdin that has fired neither end nor
\* error; and as long as it is draining it has not settled and has written
\* nothing to stdout or stderr: no timeout ends the wait.
C24_SettlesUnlessStdinSilent ==
  /\ Started ~> (Settled \/ Draining)
  /\ [](Draining => (~Settled /\ pc = "await_input" /\ stdout = <<>> /\ stderr = <<>>))

C24_Witness ==
  /\ Draining
  /\ events = MaxEvents
  /\ data = <<JUrl>>
  /\ ~Settled
  /\ stdout = <<>>

\* ---- the order of the stages

\* number of reads of an input source (a file or stdin)
Reads == Len(fileReads) + stdinReads

\* C25: the stages of an invocation run in the order parse, lookup, input
\* resolution, JSON parse, schema validation, handler, output.  An input
\* source is read at most once and only after the lookup succeeded; the
\* handler is invoked at most once, only after lookup, input resolution, JSON
\* parse and schema validation succeeded, with the validated value; nothing
\* is written while runCli waits for the input or for the handler.
C25_StagesInOrder ==
  /\ Len(registries) <= 1
  /\ Reads <= 1
  /\ (Reads = 1 \/ input # NoPromise) =>
       /\ tool.def
       /\ tool.val.id = Parsed.toolId.val
       /\ registries = <<[exaApiKey |-> Parsed.options.apiKey]>>
  /\ Len(handlerCalls) <= 1
  /\ handlerCalls # <<>> =>
       /\ tool.def
       /\ input.state = "resolved"
       /\ Truthy(input.val)
       /\ AcceptedByCrawling(input.val.val)
       /\ handlerCalls[1] = [id |-> CRAWLING,
                             config |-> [exaApiKey |-> Parsed.options.apiKey],
                             args |-> {<<"url", "string">>}]
  /\ pc = "await_input" => handlerCalls = <<>>
  /\ pc \in {"await_input", "await_handler"} =>
       /\ stdout = <<>>
       /\ stderr = <<>>
       /\ ~Settled
  /\ (handlerCalls # <<>> /\ pc # "await_handler") =>
       /\ Len(stdout) = 1
       /\ outcome # NoOutcome

C25_Witness ==
  /\ Len(fileReads) = 1
  /\ stdinReads = 0
  /\ Len(handlerCalls) = 1
  /\ Len(stdout) = 1
  /\ pc = "returned"
  /\ ret = Return(0)

\* ---- getAxiosErrorInfo

\* getAxiosErrorInfo was applied to a caught value
InfoAsked == reply.by = "getAxiosErrorInfo"

\* C26: getAxiosErrorInfo is absent exactly for a value that is no axios
\* failure.  Otherwise statusCode is the status of the response, "unknown"
\* without a response; message is the body's message member when the body is
\* a non-null object and that member is a string, else the failure's own
\* message; responseBody is absent for an undefined body, the body itself for
\* a string, else its JSON serialization.
C26_AxiosErrorInfo ==
  InfoAsked =>
    LET error == reply.remote.error
        body == error.response.data
        info == reply.info
    IN /\ info.def = (error.kind = "AxiosError")
       /\ info.def =>
            /\ info.statusCode = IF error.response.def
                                   THEN <<ToString(error.response.status)>>
                                   ELSE <<"unknown">>
            /\ info.message =
                 IF body.type = "object" /\ body.hasMessage /\ body.messageType = "string"
                   THEN body.message
                   ELSE error.message
            /\ body.type = "undefined" => info.responseBody = None
            /\ body.type = "string" => info.responseBody = Some(body.text)
            /\ body.type \notin {"undefined", "string"} =>
                 info.responseBody = Some(JsonStringify(body))

C26_Witness ==
  /\ InfoAsked
  /\ reply.remote.error.response = Response(503, StringBody(<<"bad request">>))
  /\ reply.info = [def |-> TRUE, statusCode |-> <<"503">>,
                   message |-> <<"fallback">>,
                   responseBody |-> Some(<<"bad request">>)]

\* ---- the entry point

\* the then/catch chained to runCli by the entry point has run
Exited == pc = "exited"

\* C27: at the entry point, a non-zero return value of runCli becomes the
\* exit code, a return value of 0 triggers no exit, and a rejection writes
\* the line "CLI error: <message>" (the Error's message, String(value) for
\* any other value) to stderr and sets the exit code 1.
C27_EntryPoint ==
  Exited =>
    /\ (ret.kind = "code" /\ ret.code # 0) =>
         /\ exit.via \in {"last", "bun"}
         /\ exit.code = ret.code
    /\ ret = Return(0) => exit = NoExit
    /\ ret.kind = "error" =>
         /\ stderr = <<RawChunk(<<"CLI error: ">> \o MessageOf(ret.err) \o <<"\n">>)>>
         /\ stdout = <<>>
         /\ exit.via \in {"last", "bun"}
         /\ exit.code = 1

C27_Witness ==
  /\ Exited
  /\ input.src = "atFile"
  /\ ret = Reject(Thrown(<<"boom">>))
  /\ stderr = <<RawChunk(<<"CLI error: ", "boom", "\n">>)>>
  /\ exit = [via |-> "last", code |-> 1]

\* ---- empty and blank input from a file or a literal

\* the input came from a file or from the --input literal and runCli has
\* moved past its await
FileOrLiteralDone ==
  /\ input.state = "resolved"
  /\ input.src \in (FileSources \cup {"literal"})
  /\ content.def
  /\ pc # "await_input"

\* C29: for a file and for the literal the emptiness test is on the exact
\* empty string.  A readable file whose content is empty gives "Missing
\* --input JSON or stdin input." and 1; a file or an --input literal that
\* holds only whitespace reaches JSON.parse and gives a "CLI error: " result
\* and 1; in neither case is stdin looked at or the handler invoked.
C29_ExactEmptiness ==
  FileOrLiteralDone =>
    /\ content.val = <<>> =>
         /\ input.src \in FileSources
         /\ stdout = <<MissingInputLine>>
         /\ ret = Return(1)
    /\ (content.val # <<>> /\ AllWhitespace(content.val)) =>
         /\ Len(stdout) = 1
         /\ CliErrorLine(stdout[1])
         /\ ret = Return(1)
    /\ AllWhitespace(content.val) =>
         /\ stderr = <<>>
         /\ stdinReads = 0
         /\ stdin = Unobserved
         /\ handlerCalls = <<>>

C29_Witness ==
  /\ FileOrLiteralDone
  /\ input.src = "atFile"
  /\ content = Some(<<>>)
  /\ stdout = <<MissingInputLine>>
  /\ ret = Return(1)
  /\ stdin = Unobserved

====
